---- MODULE Spec2Model ----
(***************************************************************************)
(* Model of print-jobber (src/src/main.rs): the `print` handler writing a  *)
(* text body, raw or word-wrapped to CHARS_PER_LINE columns, to the        *)
(* Option<UsbPrinter> sink (a USB receipt printer, or stdout when no       *)
(* printer could be opened).                                               *)
(*                                                                         *)
(* Text is a sequence of bytes (integers).  One action is one statement    *)
(* group of the handler that performs at most one sink operation, so that  *)
(* handlers running on different worker threads interleave at the grain    *)
(* the program does.  `out` is the history of the operations that reached  *)
(* the shared sink, in order.                                              *)
(***************************************************************************)
EXTENDS Integers, Sequences, FiniteSets, TLC

VARIABLES printer, req, out

vars == <<printer, req, out>>

(***************************************************************************)
(* Program constants and the byte alphabet.                                *)
(***************************************************************************)
CHARS_PER_LINE == 48

LF == 10
CR == 13
SP == 32
TAB == 9
FF == 12
LetterA == 97
BadByte == 255
Dash == 45

UNPROCESSABLE_ENTITY == "422 Unprocessable Entity"
INTERNAL_SERVER_ERROR == "500 Internal Server Error"
Ok == "200 OK"
Pending == "pending"

(***************************************************************************)
(* Bounds of the model.                                                    *)
(***************************************************************************)
MaxSegs == 4
MaxWriteFailures == 1

(***************************************************************************)
(* Request bodies: up to MaxSegs segments, each a run of letters of one of *)
(* the lengths around the width limit, one whitespace byte, or one byte    *)
(* that is not valid UTF-8.  Adjacent letter runs merge into one token.    *)
(***************************************************************************)
TokenLens == {1, CHARS_PER_LINE \div 2 - 1, CHARS_PER_LINE \div 2,
              CHARS_PER_LINE, CHARS_PER_LINE + 1}

Letters(n) == [i \in 1..n |-> LetterA]

Segments == {Letters(n) : n \in TokenLens}
              \cup {<<b>> : b \in {SP, LF, CR, BadByte}}

RECURSIVE Flatten(_)
Flatten(ss) == IF ss = <<>> THEN <<>> ELSE Head(ss) \o Flatten(Tail(ss))

SeqsUpTo(S, n) == UNION {[1..k -> S] : k \in 0..n}

Bodies == {Flatten(ss) : ss \in SeqsUpTo(Segments, MaxSegs)}

(***************************************************************************)
(* Bodies of the requests that run concurrently: two tokens on one line,   *)
(* two tokens with a forced break between them, and a token too long.      *)
(***************************************************************************)
ConcBodies ==
    {Letters(1) \o <<SP>> \o Letters(1),
     Letters(CHARS_PER_LINE \div 2) \o <<SP>> \o Letters(CHARS_PER_LINE),
     Letters(CHARS_PER_LINE + 1)}

(***************************************************************************)
(* std::str::from_utf8 (line 113).  Over the byte alphabet of the model    *)
(* the ASCII bytes are valid and the byte 0xFF, which occurs in no UTF-8   *)
(* encoding, makes the body invalid.                                       *)
(***************************************************************************)
from_utf8_ok(bytes) == \A i \in 1..Len(bytes) : bytes[i] < 128

(***************************************************************************)
(* str::lines (lines 123, 128): the text is split after every "\n"; of     *)
(* each piece a final "\n" is stripped, and then (only then) a final "\r". *)
(* The empty text has no line.                                             *)
(***************************************************************************)
RECURSIVE split_inclusive(_)
split_inclusive(s) ==
    IF s = <<>> THEN <<>>
    ELSE LET idx == {i \in 1..Len(s) : s[i] = LF}
             cut == IF idx = {} THEN Len(s)
                    ELSE CHOOSE i \in idx : \A j \in idx : i <= j
         IN  <<SubSeq(s, 1, cut)>> \o split_inclusive(SubSeq(s, cut + 1, Len(s)))

(* A variant that strips a final "\r" also from a line without "\n".       *)
strip_line_ending_any_cr(line) ==
    LET l0 == IF line # <<>> /\ line[Len(line)] = LF
              THEN SubSeq(line, 1, Len(line) - 1) ELSE line
    IN  IF l0 # <<>> /\ l0[Len(l0)] = CR THEN SubSeq(l0, 1, Len(l0) - 1)
        ELSE l0

strip_line_ending(line) ==
    IF line # <<>> /\ line[Len(line)] = LF
    THEN LET l1 == SubSeq(line, 1, Len(line) - 1)
         IN  IF l1 # <<>> /\ l1[Len(l1)] = CR
             THEN SubSeq(l1, 1, Len(l1) - 1)
             ELSE l1
    ELSE line

(* A variant that splits as str::split('\n') does: the empty text is one   *)
(* empty line.                                                             *)
lines_of_empty(s) ==
    IF s = <<>> THEN << <<>> >>
    ELSE LET p == split_inclusive(s)
         IN  [i \in 1..Len(p) |-> strip_line_ending(p[i])]

lines(s) == LET p == split_inclusive(s)
            IN  [i \in 1..Len(p) |-> strip_line_ending(p[i])]

(***************************************************************************)
(* u8::is_ascii_whitespace and str::split_ascii_whitespace (line 132):     *)
(* the maximal runs of non-whitespace bytes, in order; no empty token.     *)
(***************************************************************************)
is_ascii_whitespace(b) == b \in {SP, TAB, LF, FF, CR}

RECURSIVE split_ascii_whitespace(_)
split_ascii_whitespace(s) ==
    IF s = <<>> THEN <<>>
    ELSE IF is_ascii_whitespace(s[1]) THEN split_ascii_whitespace(Tail(s))
    ELSE LET ws  == {i \in 1..Len(s) : is_ascii_whitespace(s[i])}
             end == IF ws = {} THEN Len(s) + 1
                    ELSE CHOOSE i \in ws : \A j \in ws : i <= j
         IN  <<SubSeq(s, 1, end - 1)>>
               \o split_ascii_whitespace(SubSeq(s, end, Len(s)))

(***************************************************************************)
(* "-".repeat(CHARS_PER_LINE) (lines 119, 166).                            *)
(***************************************************************************)
separator == [i \in 1..CHARS_PER_LINE |-> Dash]

(***************************************************************************)
(* Sink operations.  write_chunk (lines 46-54): with a printer the chunk   *)
(* goes to printer.write, whose failure is logged and dropped; without one *)
(* it is printed to stdout, which does not fail.  The history records who  *)
(* issued the operation, which one, its text and whether it succeeded.     *)
(***************************************************************************)
SinkOp(r, op, text, ok) == [req |-> r, op |-> op, text |-> text, ok |-> ok]

FailedWrites == Len(SelectSeq(out, LAMBDA e : ~e.ok /\ e.op = "write"))

write_chunk_fails ==
    IF printer = "Some" /\ FailedWrites < MaxWriteFailures
    THEN {FALSE, TRUE} ELSE {FALSE}

write_chunk(r, chunk, failed) ==
    IF printer = "Some"
    THEN out' = Append(out, SinkOp(r, "write", chunk, ~failed))
    ELSE out' = Append(out, SinkOp(r, "print", chunk, TRUE))

(***************************************************************************)
(* The state of one request: its inputs, the position of the handler, the  *)
(* two iterators (remaining lines, remaining chunks of the current line),  *)
(* the two locals of the wrapping loop and the handler's result.           *)
(***************************************************************************)
Idle == [pc |-> "idle", body |-> <<>>, raw |-> FALSE, rest |-> <<>>,
         line |-> <<>>, chunks |-> <<>>, chars_written |-> 0,
         extra_char |-> 0, result |-> Pending]

Set(r, rec) == req' = [req EXCEPT ![r] = rec]

(***************************************************************************)
(* The head of the `for chunk in line.split_ascii_whitespace()` loop (line *)
(* 132): the next chunk is examined, or the line is ended (line 154).      *)
(***************************************************************************)
NextChunk(rec) ==
    IF rec.chunks = <<>> THEN [rec EXCEPT !.pc = "end_line"]
                         ELSE [rec EXCEPT !.pc = "chunk"]

(* A variant in which the loop locals are declared outside the loop over   *)
(* the lines: the budget of one input line is carried into the next.       *)
NextLine_carries_budget(rec) ==
    IF rec.rest = <<>>
    THEN [rec EXCEPT !.pc = "finish", !.line = <<>>, !.chunks = <<>>]
    ELSE IF rec.raw
    THEN [rec EXCEPT !.pc = "raw_line", !.line = Head(rec.rest),
                     !.rest = Tail(rec.rest)]
    ELSE NextChunk([rec EXCEPT !.line = Head(rec.rest),
                               !.rest = Tail(rec.rest),
                               !.chunks = split_ascii_whitespace(Head(rec.rest))])

(***************************************************************************)
(* The head of a `for line in str.lines()` loop (lines 123, 128): take the *)
(* next line or leave the loop for the final block (line 158).             *)
(***************************************************************************)
NextLine(rec) ==
    IF rec.rest = <<>>
    THEN [rec EXCEPT !.pc = "finish", !.line = <<>>, !.chunks = <<>>]
    ELSE IF rec.raw
    THEN [rec EXCEPT !.pc = "raw_line", !.line = Head(rec.rest),
                     !.rest = Tail(rec.rest)]
    ELSE NextChunk([rec EXCEPT !.line = Head(rec.rest),
                               !.rest = Tail(rec.rest),
                               !.chunks = split_ascii_whitespace(Head(rec.rest)),
                               !.chars_written = 0, !.extra_char = 0])

(***************************************************************************)
(* Lines 108-120: the request arrives with a body and the raw flag; a body *)
(* that is not UTF-8 ends it with 422 before anything is written; without  *)
(* a printer the opening separator is printed.                             *)
(***************************************************************************)
print_begin(r, B) ==
    /\ req[r].pc = "idle"
    /\ \E body \in B, raw \in BOOLEAN :
         IF ~from_utf8_ok(body)
         THEN /\ Set(r, [req[r] EXCEPT !.pc = "done", !.body = body,
                                       !.raw = raw,
                                       !.result = UNPROCESSABLE_ENTITY])
              /\ UNCHANGED out
         ELSE /\ Set(r, NextLine([req[r] EXCEPT !.body = body, !.raw = raw,
                                                !.rest = lines(body)]))
              /\ IF printer = "None"
                 THEN out' = Append(out, SinkOp(r, "println", separator, TRUE))
                 ELSE UNCHANGED out
    /\ UNCHANGED printer

(* A variant in which a failed write ends the request with 500.            *)
Write_or_abort(r, chunk, rec) ==
    \E failed \in write_chunk_fails :
        /\ write_chunk(r, chunk, failed)
        /\ Set(r, IF failed
                  THEN [rec EXCEPT !.pc = "done",
                                   !.result = INTERNAL_SERVER_ERROR]
                  ELSE rec)

(***************************************************************************)
(* One call of write_chunk by request r, after which the handler is in     *)
(* state rec.  On a printer the write may fail; the failure is logged      *)
(* (line 49) and the handler goes on as after a successful write.          *)
(***************************************************************************)
Write(r, chunk, rec) ==
    \E failed \in write_chunk_fails :
        /\ write_chunk(r, chunk, failed)
        /\ Set(r, rec)

(***************************************************************************)
(* Raw mode, lines 123-126: the line, then "\n".                           *)
(***************************************************************************)
raw_line(r) ==
    /\ req[r].pc = "raw_line"
    /\ Write(r, req[r].line, [req[r] EXCEPT !.pc = "raw_newline"])
    /\ UNCHANGED printer

raw_newline(r) ==
    /\ req[r].pc = "raw_newline"
    /\ Write(r, <<LF>>, NextLine(req[r]))
    /\ UNCHANGED printer

(***************************************************************************)
(* Wrapped mode.  The two conditions of lines 133 and 138.                 *)
(***************************************************************************)
(* A variant that lets a chunk of CHARS_PER_LINE + 1 through.              *)
too_long_off_by_one(chunk) == Len(chunk) > CHARS_PER_LINE + 1

too_long(chunk) == Len(chunk) > CHARS_PER_LINE

(* A variant that forgets the separating space.                            *)
overflows_without_space(chars_written, chunk, extra_char) ==
    chars_written + Len(chunk) > CHARS_PER_LINE

(* A variant that counts a separating space before every chunk, also the   *)
(* first of a line.                                                        *)
overflows_always_space(chars_written, chunk, extra_char) ==
    chars_written + Len(chunk) + 1 > CHARS_PER_LINE

(* A variant that breaks already when the chunk would fill the line        *)
(* exactly.                                                                *)
overflows_at_limit(chars_written, chunk, extra_char) ==
    chars_written + Len(chunk) + extra_char >= CHARS_PER_LINE

overflows(chars_written, chunk, extra_char) ==
    chars_written + Len(chunk) + extra_char > CHARS_PER_LINE

(***************************************************************************)
(* Lines 133-144: a chunk longer than the line ends the request with 422   *)
(* (line 135); otherwise the handler goes to the forced break (139), to    *)
(* the separating space (145) or straight to the chunk (148).              *)
(***************************************************************************)
check_chunk(r) ==
    /\ req[r].pc = "chunk"
    /\ LET rec == req[r]
           chunk == Head(rec.chunks)
       IN  IF too_long(chunk)
           THEN Set(r, [rec EXCEPT !.pc = "done",
                                   !.result = UNPROCESSABLE_ENTITY])
           ELSE IF overflows(rec.chars_written, chunk, rec.extra_char)
           THEN Set(r, [rec EXCEPT !.pc = "break"])
           ELSE IF rec.extra_char = 1
           THEN Set(r, [rec EXCEPT !.pc = "space"])
           ELSE Set(r, [rec EXCEPT !.pc = "unit"])
    /\ UNCHANGED <<printer, out>>

(* A variant in which the chunk that forced the break is lost.             *)
break_line_loses_chunk(r) ==
    /\ req[r].pc = "break"
    /\ Write(r, <<LF>>, NextChunk([req[r] EXCEPT !.chunks = Tail(@),
                                                 !.chars_written = 0,
                                                 !.extra_char = 0]))
    /\ UNCHANGED printer

(* A variant that forgets `extra_char = 0` (line 141): the space is        *)
(* written after the break.                                                *)
break_line_keeps_space(r) ==
    /\ req[r].pc = "break"
    /\ Write(r, <<LF>>, [req[r] EXCEPT !.pc = IF req[r].extra_char = 1
                                              THEN "space" ELSE "unit",
                                       !.chars_written = 0])
    /\ UNCHANGED printer

(***************************************************************************)
(* Lines 139-144: the forced break; the budget is reset, so that no space  *)
(* is written before the chunk.                                            *)
(***************************************************************************)
break_line(r) ==
    /\ req[r].pc = "break"
    /\ Write(r, <<LF>>, [req[r] EXCEPT !.pc = "unit", !.chars_written = 0,
                                       !.extra_char = 0])
    /\ UNCHANGED printer

(***************************************************************************)
(* Line 145.                                                               *)
(***************************************************************************)
write_space(r) ==
    /\ req[r].pc = "space"
    /\ Write(r, <<SP>>, [req[r] EXCEPT !.pc = "unit"])
    /\ UNCHANGED printer

(***************************************************************************)
(* Lines 148-151: the chunk itself, and the budget after it.               *)
(***************************************************************************)
write_unit(r) ==
    /\ req[r].pc = "unit"
    /\ LET rec == req[r]
           chunk == Head(rec.chunks)
       IN  Write(r, chunk,
                 NextChunk([rec EXCEPT
                     !.chunks = Tail(rec.chunks),
                     !.chars_written = @ + rec.extra_char + Len(chunk),
                     !.extra_char = 1]))
    /\ UNCHANGED printer

(* A variant that ends only the lines on which something was written.     *)
end_line_skips_blank(r) ==
    /\ req[r].pc = "end_line"
    /\ IF req[r].chars_written = 0
       THEN Set(r, NextLine(req[r])) /\ UNCHANGED out
       ELSE Write(r, <<LF>>, NextLine(req[r]))
    /\ UNCHANGED printer

(***************************************************************************)
(* Line 154: the newline that ends the input line.                         *)
(***************************************************************************)
end_line(r) ==
    /\ req[r].pc = "end_line"
    /\ Write(r, <<LF>>, NextLine(req[r]))
    /\ UNCHANGED printer

(* A variant that prints no closing separator.                             *)
print_finish_unclosed(r) ==
    /\ req[r].pc = "finish"
    /\ IF printer = "Some"
       THEN \E ok \in BOOLEAN :
              /\ out' = Append(out, SinkOp(r, "print_cut", <<>>, ok))
              /\ Set(r, [req[r] EXCEPT !.pc = "done",
                            !.result = IF ok THEN Ok
                                             ELSE INTERNAL_SERVER_ERROR])
       ELSE /\ UNCHANGED out
            /\ Set(r, [req[r] EXCEPT !.pc = "done", !.result = Ok])
    /\ UNCHANGED printer

(* A variant that takes no notice of a failed print_cut.                   *)
print_finish_ignores_cut(r) ==
    /\ req[r].pc = "finish"
    /\ IF printer = "Some"
       THEN \E ok \in BOOLEAN :
              /\ out' = Append(out, SinkOp(r, "print_cut", <<>>, ok))
              /\ Set(r, [req[r] EXCEPT !.pc = "done", !.result = Ok])
       ELSE /\ out' = Append(out, SinkOp(r, "println", separator, TRUE))
            /\ Set(r, [req[r] EXCEPT !.pc = "done", !.result = Ok])
    /\ UNCHANGED printer

(***************************************************************************)
(* Lines 158-169: with a printer, print_cut, whose failure is the 500      *)
(* result; without one, the closing separator.                             *)
(***************************************************************************)
print_finish(r) ==
    /\ req[r].pc = "finish"
    /\ IF printer = "Some"
       THEN \E ok \in BOOLEAN :
              /\ out' = Append(out, SinkOp(r, "print_cut", <<>>, ok))
              /\ Set(r, [req[r] EXCEPT !.pc = "done",
                            !.result = IF ok THEN Ok
                                             ELSE INTERNAL_SERVER_ERROR])
       ELSE /\ out' = Append(out, SinkOp(r, "println", separator, TRUE))
            /\ Set(r, [req[r] EXCEPT !.pc = "done", !.result = Ok])
    /\ UNCHANGED printer

(***************************************************************************)
(* create_printer (lines 56-86): Some(printer) when the USB device opens   *)
(* and initialises, None otherwise.                                        *)
(***************************************************************************)
create_printer == {"Some", "None"}

Init ==
    /\ printer \in create_printer
    /\ req = [r \in {1} |-> Idle]
    /\ out = <<>>

Step(r) ==
    \/ raw_line(r)
    \/ raw_newline(r)
    \/ check_chunk(r)
    \/ break_line(r)
    \/ write_space(r)
    \/ write_unit(r)
    \/ end_line(r)
    \/ print_finish(r)

Next == \E r \in DOMAIN req : print_begin(r, Bodies) \/ Step(r)

Spec == Init /\ [][Next]_vars

(***************************************************************************)
(* Two requests in flight on a multi-threaded runtime (lines 88-94: the    *)
(* handlers get the state with no lock around it).                         *)
(***************************************************************************)
InitConc ==
    /\ printer \in create_printer
    /\ req = [r \in {1, 2} |-> Idle]
    /\ out = <<>>

NextConc == \E r \in DOMAIN req : print_begin(r, ConcBodies) \/ Step(r)

SpecConc == InitConc /\ [][NextConc]_vars

(***************************************************************************)
(* What a request has done to the sink, read off the history.              *)
(***************************************************************************)
Done(r) == req[r].pc = "done"

OpsOf(r) == SelectSeq(out, LAMBDA e : e.req = r)

ChunksOf(r) == SelectSeq(out, LAMBDA e : e.req = r /\ e.op \in {"write", "print"})

Texts(ops) == [i \in 1..Len(ops) |-> ops[i].text]

Stream(r) == Flatten(Texts(ChunksOf(r)))

UnitsOf(r) == SelectSeq(Texts(ChunksOf(r)), LAMBDA t : t # <<SP>> /\ t # <<LF>>)

RECURSIVE LineLens(_, _)
LineLens(texts, cur) ==
    IF texts = <<>> THEN (IF cur = 0 THEN <<>> ELSE <<cur>>)
    ELSE IF Head(texts) = <<LF>> THEN <<cur>> \o LineLens(Tail(texts), 0)
    ELSE LineLens(Tail(texts), cur + Len(Head(texts)))

OutputLineLens(r) == LineLens(Texts(ChunksOf(r)), 0)

Range(f) == {f[i] : i \in DOMAIN f}

Accepted(r) == Done(r) /\ req[r].result # UNPROCESSABLE_ENTITY

HasLongToken(body) ==
    \E t \in Range(split_ascii_whitespace(body)) : Len(t) > CHARS_PER_LINE

(* C1: in wrapped mode, every output line of an accepted text body (the    *)
(* chunks between two newline chunks, spaces included) has at most         *)
(* CHARS_PER_LINE characters.                                              *)
C1_WrappedLinesFit ==
    \A r \in DOMAIN req :
        (Accepted(r) /\ ~req[r].raw) =>
            \A n \in Range(OutputLineLens(r)) : n <= CHARS_PER_LINE

(* An accepted wrapped request in which a forced break happened and a line *)
(* is exactly full.                                                        *)
C1_Witness ==
    \E r \in DOMAIN req :
        /\ Accepted(r) /\ ~req[r].raw
        /\ CHARS_PER_LINE \in Range(OutputLineLens(r))
        /\ Len(OutputLineLens(r)) > Len(lines(req[r].body))

(* C2: in wrapped mode the unit chunks written for an accepted body (the   *)
(* chunks other than space and newline) are the whitespace-delimited       *)
(* tokens of the body, all of them, once each, whole and in order.         *)
C2_TokensPreserved ==
    \A r \in DOMAIN req :
        (Accepted(r) /\ ~req[r].raw) =>
            UnitsOf(r) = split_ascii_whitespace(req[r].body)

(* An accepted wrapped request with two different tokens and a forced      *)
(* break between them.                                                     *)
C2_Witness ==
    \E r \in DOMAIN req :
        /\ Accepted(r) /\ ~req[r].raw
        /\ Len(UnitsOf(r)) >= 2
        /\ UnitsOf(r)[1] # UnitsOf(r)[2]
        /\ Len(OutputLineLens(r)) > Len(lines(req[r].body))

(* C3: a wrapped request whose body holds a token longer than              *)
(* CHARS_PER_LINE ends with 422, and the chunks written are exactly the    *)
(* tokens before the first such token: nothing of it reaches the sink.     *)
FirstLong(toks) == CHOOSE i \in 1..Len(toks) :
                      /\ Len(toks[i]) > CHARS_PER_LINE
                      /\ \A j \in 1..(i - 1) : Len(toks[j]) <= CHARS_PER_LINE

C3_LongTokenRejected ==
    \A r \in DOMAIN req :
        (Done(r) /\ ~req[r].raw /\ HasLongToken(req[r].body)) =>
            /\ req[r].result = UNPROCESSABLE_ENTITY
            /\ \A t \in Range(Texts(ChunksOf(r))) : Len(t) <= CHARS_PER_LINE
            /\ from_utf8_ok(req[r].body) =>
                 LET toks == split_ascii_whitespace(req[r].body)
                 IN  UnitsOf(r) = SubSeq(toks, 1, FirstLong(toks) - 1)

(* A wrapped request rejected for a long token that stands after a token   *)
(* that was written.                                                       *)
C3_Witness ==
    \E r \in DOMAIN req :
        /\ Done(r) /\ ~req[r].raw /\ HasLongToken(req[r].body)
        /\ from_utf8_ok(req[r].body)
        /\ Len(UnitsOf(r)) >= 1

(* C4: a request that ends with 422 has emitted nothing to the sink.       *)
C4_InvalidInputEmitsNothing ==
    \A r \in DOMAIN req :
        (Done(r) /\ req[r].result = UNPROCESSABLE_ENTITY) => OpsOf(r) = <<>>

(* A request ended with 422 by a long token, on stdout.                    *)
C4_Reached ==
    \E r \in DOMAIN req :
        /\ Done(r) /\ req[r].result = UNPROCESSABLE_ENTITY
        /\ from_utf8_ok(req[r].body) /\ printer = "None"

(***************************************************************************)
(* Raw mode: readings of "identical except that the end is normalised to   *)
(* exactly one trailing newline".                                          *)
(***************************************************************************)
RECURSIVE StripTrailingLF(_)
StripTrailingLF(s) ==
    IF s # <<>> /\ s[Len(s)] = LF THEN StripTrailingLF(SubSeq(s, 1, Len(s) - 1))
    ELSE s

EndsWithLF(s) == s # <<>> /\ s[Len(s)] = LF

TrailingNewlineReadings(body) ==
    {StripTrailingLF(body) \o <<LF>>,
     IF EndsWithLF(body) THEN body ELSE body \o <<LF>>,
     IF body = <<>> \/ EndsWithLF(body) THEN body ELSE body \o <<LF>>}

RECURSIVE CrLfToLf(_)
CrLfToLf(s) ==
    IF s = <<>> THEN <<>>
    ELSE IF Len(s) >= 2 /\ s[1] = CR /\ s[2] = LF
    THEN <<LF>> \o CrLfToLf(SubSeq(s, 3, Len(s)))
    ELSE <<s[1]>> \o CrLfToLf(Tail(s))

RawExpected(body) ==
    LET t == CrLfToLf(body)
    IN  IF t = <<>> \/ EndsWithLF(t) THEN t ELSE t \o <<LF>>

RawDone(r) == Done(r) /\ req[r].raw /\ from_utf8_ok(req[r].body)

(* C5 as stated: in raw mode the bytes written are the body, byte for      *)
(* byte, but for one newline at its end (under each reading of that).      *)
C5_RawIdenticalButTrailingNewline ==
    \A r \in DOMAIN req :
        RawDone(r) => Stream(r) \in TrailingNewlineReadings(req[r].body)

(* C5 as amended: in raw mode the bytes written are the body with every    *)
(* "\r\n" written as "\n" and with a "\n" added after a last line that has *)
(* no terminator (the empty body writes nothing); no width limit applies   *)
(* and nothing else is added, removed or changed.                          *)
C5_RawLinesVerbatim ==
    \A r \in DOMAIN req :
        RawDone(r) => Stream(r) = RawExpected(req[r].body)

(* A raw request whose body has a "\r\n" and a line wider than the limit.  *)
C5_Witness ==
    \E r \in DOMAIN req :
        /\ RawDone(r)
        /\ Stream(r) # req[r].body
        /\ \E i \in 1..(Len(req[r].body) - 1) :
              req[r].body[i] = CR /\ req[r].body[i + 1] = LF
        /\ \E n \in Range(OutputLineLens(r)) : n > CHARS_PER_LINE

(***************************************************************************)
(* The framing of a document.                                              *)
(***************************************************************************)
IsSeparator(e) == e.op = "println" /\ e.text = separator

IsCut(e) == e.op = "print_cut"

IsChunk(e) == e.op \in {"write", "print"}

EmptyWrapped(r) ==
    Done(r) /\ ~req[r].raw /\ req[r].body = <<>>

(* C6 as stated: an empty body in wrapped mode writes one newline chunk    *)
(* and no other, between the two separators on stdout, before the one cut  *)
(* on the printer.                                                         *)
C6_EmptyBodyOneBlankLine ==
    \A r \in DOMAIN req :
        EmptyWrapped(r) => Texts(ChunksOf(r)) = << <<LF>> >>

(* C6 as amended: an empty body in wrapped mode writes no chunk at all, not *)
(* even a newline: on stdout the opening separator is followed at once by   *)
(* the closing one and the result is success; on the printer the only       *)
(* operation is one flush-and-cut, and the result is success if it          *)
(* succeeds and the server-side error if it fails.                          *)
C6_EmptyBodyNoChunk ==
    \A r \in DOMAIN req :
        EmptyWrapped(r) =>
            LET ops == OpsOf(r)
            IN  IF printer = "None"
                THEN /\ Len(ops) = 2
                     /\ IsSeparator(ops[1]) /\ IsSeparator(ops[2])
                     /\ req[r].result = Ok
                ELSE /\ Len(ops) = 1
                     /\ IsCut(ops[1])
                     /\ req[r].result =
                          IF ops[1].ok THEN Ok ELSE INTERNAL_SERVER_ERROR

(* The empty wrapped request has returned on stdout.                       *)
C6_Witness ==
    \E r \in DOMAIN req : EmptyWrapped(r) /\ printer = "None"

(* C7: the sink operations of one request are never interleaved with an    *)
(* operation of another request.                                           *)
C7_DocumentsContiguous ==
    \A i, j, k \in 1..Len(out) :
        (i < j /\ j < k /\ out[i].req = out[k].req) => out[j].req = out[i].req

(* Two requests have both written to the sink.                             *)
C7_Reached ==
    \E i, j \in 1..Len(out) : out[i].req # out[j].req

(* C8: a request that returns success has done, in this order: on stdout   *)
(* one opening separator, its chunks, one closing separator; on the        *)
(* printer its chunks and then one flush-and-cut, and no separator.        *)
C8_BeginChunksFinish ==
    \A r \in DOMAIN req :
        (Done(r) /\ req[r].result = Ok) =>
            LET ops == OpsOf(r)
                n   == Len(ops)
            IN  IF printer = "None"
                THEN /\ n >= 2
                     /\ IsSeparator(ops[1]) /\ IsSeparator(ops[n])
                     /\ \A i \in 2..(n - 1) : ops[i].op = "print"
                ELSE /\ n >= 1
                     /\ IsCut(ops[n]) /\ ops[n].ok
                     /\ \A i \in 1..(n - 1) : ops[i].op = "write"

(* A successful request with chunks between begin and finish, on stdout.   *)
C8_Witness ==
    \E r \in DOMAIN req :
        /\ Done(r) /\ req[r].result = Ok /\ printer = "None"
        /\ Len(ChunksOf(r)) >= 3

(* C9: on stdout, a request that has printed the opening separator has     *)
(* printed the closing one when it returns, whatever its result.           *)
C9_FallbackDocumentClosed ==
    \A r \in DOMAIN req :
        (Done(r) /\ printer = "None" /\ OpsOf(r) # <<>>) =>
            LET ops == OpsOf(r)
            IN  Len(ops) >= 2 /\ IsSeparator(ops[Len(ops)])

(* C10: on the printer a failed write aborts nothing.  For a body that is  *)
(* text (and in wrapped mode has no long token), however many writes       *)
(* failed: every chunk was attempted, in order (the bytes of raw mode, the *)
(* tokens of wrapped mode, each line ended by its newline), the flush-and- *)
(* cut came last, and the result is that of the flush-and-cut alone.       *)
C10_FailedWriteContinues ==
    \A r \in DOMAIN req :
        (/\ Done(r) /\ printer = "Some" /\ from_utf8_ok(req[r].body)
         /\ (req[r].raw \/ ~HasLongToken(req[r].body))) =>
            LET ops == OpsOf(r)
                n   == Len(ops)
            IN  /\ n >= 1 /\ IsCut(ops[n])
                /\ \A i \in 1..(n - 1) : ops[i].op = "write"
                /\ req[r].result = IF ops[n].ok THEN Ok ELSE INTERNAL_SERVER_ERROR
                /\ req[r].raw => Stream(r) = RawExpected(req[r].body)
                /\ ~req[r].raw =>
                     /\ UnitsOf(r) = split_ascii_whitespace(req[r].body)
                     /\ Len(SelectSeq(Texts(ChunksOf(r)), LAMBDA t : t = <<LF>>))
                          >= Len(lines(req[r].body))
                     /\ (n > 1 => ops[n - 1].text = <<LF>>)

(* A request on the printer that returned success although a write that    *)
(* was not its last one had failed.                                        *)
C10_Witness ==
    \E r \in DOMAIN req :
        /\ Done(r) /\ printer = "Some" /\ req[r].result = Ok
        /\ \E i, j \in 1..Len(out) :
              /\ i < j
              /\ out[i].op = "write" /\ ~out[i].ok
              /\ out[j].op = "write"

ValidInput(r) ==
    /\ from_utf8_ok(req[r].body)
    /\ req[r].raw \/ ~HasLongToken(req[r].body)

(* C11: a request with valid input returns 500 exactly when the sink is    *)
(* the printer and its final print_cut failed, and returns success in      *)
(* every other case; on stdout it always returns success.                  *)
C11_ServerErrorIffCutFails ==
    \A r \in DOMAIN req :
        (Done(r) /\ ValidInput(r)) =>
            LET ops == OpsOf(r)
                cut_failed == /\ printer = "Some"
                              /\ ops # <<>>
                              /\ IsCut(ops[Len(ops)])
                              /\ ~ops[Len(ops)].ok
            IN  /\ req[r].result = IF cut_failed THEN INTERNAL_SERVER_ERROR
                                                 ELSE Ok
                /\ printer = "None" => req[r].result = Ok

(* A request with valid input whose writes all succeeded and whose         *)
(* print_cut failed.                                                       *)
C11_Witness ==
    \E r \in DOMAIN req :
        /\ Done(r) /\ ValidInput(r) /\ printer = "Some"
        /\ req[r].result = INTERNAL_SERVER_ERROR
        /\ Len(ChunksOf(r)) >= 2
        /\ \A i \in 1..Len(ChunksOf(r)) : ChunksOf(r)[i].ok

(***************************************************************************)
(* The layout of the chunks written in wrapped mode.                       *)
(***************************************************************************)
IsUnit(t) == t # <<SP>> /\ t # <<LF>>

WrappedDone(r) == Done(r) /\ ~req[r].raw /\ from_utf8_ok(req[r].body)

(* C16: in wrapped mode a space chunk stands only between two units of the *)
(* same output line (never first on a line, never last), and a unit of     *)
(* exactly CHARS_PER_LINE characters has its output line to itself.        *)
C16_SpaceOnlyBetweenUnits ==
    \A r \in DOMAIN req :
        WrappedDone(r) =>
            LET t == Texts(ChunksOf(r))
                n == Len(t)
            IN  /\ \A i \in 1..n :
                     t[i] = <<SP>> =>
                        /\ 1 < i /\ i < n
                        /\ IsUnit(t[i - 1]) /\ IsUnit(t[i + 1])
                /\ \A i \in 1..n :
                     Len(t[i]) = CHARS_PER_LINE =>
                        /\ i > 1 => t[i - 1] = <<LF>>
                        /\ i < n => t[i + 1] = <<LF>>

(* An accepted request in which a unit of CHARS_PER_LINE characters        *)
(* follows a forced break.                                                 *)
C16_Witness ==
    \E r \in DOMAIN req :
        /\ WrappedDone(r) /\ Accepted(r)
        /\ Len(lines(req[r].body)) = 1
        /\ LET t == Texts(ChunksOf(r))
           IN  /\ Len(t) >= 3
               /\ IsUnit(t[1]) /\ t[2] = <<LF>> /\ Len(t[3]) = CHARS_PER_LINE

(* An accepted request with a space chunk between two units.               *)
C16_SpaceWritten ==
    \E r \in DOMAIN req :
        /\ WrappedDone(r) /\ Accepted(r)
        /\ <<SP>> \in Range(Texts(ChunksOf(r)))

(***************************************************************************)
(* The length of the output line request r is writing, read off the        *)
(* history: the chunks after its last newline chunk.                       *)
(***************************************************************************)
RECURSIVE OpenLineLen(_)
OpenLineLen(t) ==
    IF t = <<>> \/ t[Len(t)] = <<LF>> THEN 0
    ELSE Len(t[Len(t)]) + OpenLineLen(SubSeq(t, 1, Len(t) - 1))

CurrentLineLen(r) == OpenLineLen(Texts(ChunksOf(r)))

Placing(r) ==
    /\ req[r].pc = "chunk"
    /\ req'[r].pc \in {"break", "space", "unit"}

LastOp(r, text) ==
    /\ Len(out') = Len(out) + 1
    /\ out'[Len(out')].req = r
    /\ out'[Len(out')].text = text

(* C17 as stated: a forced break comes before a unit exactly when the      *)
(* length of the current output line plus one separator plus the length of *)
(* the unit exceeds CHARS_PER_LINE.                                        *)
C17_BreakIffLinePlusOneOverflows ==
    [][\A r \in DOMAIN req :
         Placing(r) =>
            (req'[r].pc = "break" <=>
                CurrentLineLen(r) + 1 + Len(Head(req[r].chunks))
                    > CHARS_PER_LINE)]_vars

(* C17 as amended: a forced break comes before a unit exactly when the     *)
(* current output line holds at least one unit and its length plus one     *)
(* separator plus the length of the unit exceeds CHARS_PER_LINE (the first *)
(* unit of a line is placed without a separator and never forces a break); *)
(* the break writes one newline chunk, and the unit that forced it is the  *)
(* next chunk written, first on the new line.                              *)
C17_GreedyFirstFit ==
    [][\A r \in DOMAIN req :
         /\ Placing(r) =>
              (req'[r].pc = "break" <=>
                  /\ CurrentLineLen(r) > 0
                  /\ CurrentLineLen(r) + 1 + Len(Head(req[r].chunks))
                        > CHARS_PER_LINE)
         /\ (req[r].pc = "break" /\ req'[r] # req[r]) =>
              /\ CurrentLineLen(r) + 1 + Len(Head(req[r].chunks))
                    > CHARS_PER_LINE
              /\ LastOp(r, <<LF>>)
              /\ req'[r].pc = "unit"
              /\ req'[r].chunks = req[r].chunks
         /\ (req[r].pc = "unit" /\ req'[r] # req[r]) =>
              LastOp(r, Head(req[r].chunks))]_vars

(* A forced break that the separator alone decides: line and unit would    *)
(* fill the line exactly without it.                                       *)
C17_Witness ==
    \E r \in DOMAIN req :
        /\ req[r].pc = "break"
        /\ CurrentLineLen(r) + Len(Head(req[r].chunks)) = CHARS_PER_LINE

(***************************************************************************)
(* Lines 129-154 for one input line on its own, as a function: the chunks  *)
(* written for the remaining tokens from the budget (chars_written,        *)
(* extra_char), ended by the newline of line 154.                          *)
(***************************************************************************)
RECURSIVE wrap_chunks(_, _, _)
wrap_chunks(chunks, chars_written, extra_char) ==
    IF chunks = <<>> THEN << <<LF>> >>
    ELSE LET chunk == Head(chunks)
             brk == overflows(chars_written, chunk, extra_char)
             cw  == IF brk THEN 0 ELSE chars_written
             ec  == IF brk THEN 0 ELSE extra_char
         IN  (IF brk THEN << <<LF>> >> ELSE <<>>)
               \o (IF ec = 1 THEN << <<SP>> >> ELSE <<>>)
               \o <<chunk>>
               \o wrap_chunks(Tail(chunks), cw + ec + Len(chunk), 1)

wrap_line(line) == wrap_chunks(split_ascii_whitespace(line), 0, 0)

RECURSIVE ConcatLines(_)
ConcatLines(ls) ==
    IF ls = <<>> THEN <<>> ELSE wrap_line(Head(ls)) \o ConcatLines(Tail(ls))

(* C18: the chunks written for an accepted wrapped body are the chunks of  *)
(* its first input line processed alone from the budget (0, 0), followed   *)
(* by those of its second line processed alone, and so on: nothing is      *)
(* carried from one input line into the next.                              *)
C18_LinesIndependent ==
    \A r \in DOMAIN req :
        (WrappedDone(r) /\ Accepted(r)) =>
            Texts(ChunksOf(r)) = ConcatLines(lines(req[r].body))

(* An accepted body of two input lines with tokens, which would not fit on *)
(* one output line together and are each written without a forced break.  *)
C18_Witness ==
    \E r \in DOMAIN req :
        /\ WrappedDone(r) /\ Accepted(r)
        /\ LET ls == lines(req[r].body)
           IN  /\ Len(ls) = 2
               /\ split_ascii_whitespace(ls[1]) # <<>>
               /\ split_ascii_whitespace(ls[2]) # <<>>
               /\ Len(OutputLineLens(r)) = 2
               /\ OutputLineLens(r)[1] + 1 + OutputLineLens(r)[2]
                     > CHARS_PER_LINE

(***************************************************************************)
(* The output lines of a request as numbers of units, and the input line   *)
(* each of them belongs to.  Owners walks the output lines along the token *)
(* counts of the input lines: an input line without tokens owns one output *)
(* line without units, an input line with tokens owns the output lines     *)
(* that hold its tokens, the last of which ends with its last token.  -1   *)
(* marks an output line that fits no input line, or a missing one.         *)
(***************************************************************************)
RECURSIVE UnitCounts(_, _)
UnitCounts(t, cur) ==
    IF t = <<>> THEN (IF cur = 0 THEN <<>> ELSE <<cur>>)
    ELSE IF Head(t) = <<LF>> THEN <<cur>> \o UnitCounts(Tail(t), 0)
    ELSE UnitCounts(Tail(t), IF Head(t) = <<SP>> THEN cur ELSE cur + 1)

TokenCounts(ls) == [i \in 1..Len(ls) |-> Len(split_ascii_whitespace(ls[i]))]

RECURSIVE Owners(_, _, _, _)
Owners(oc, ic, i, used) ==
    IF oc = <<>> THEN (IF i > Len(ic) THEN <<>> ELSE <<-1>>)
    ELSE IF i > Len(ic) THEN <<-1>>
    ELSE LET n == Head(oc)
         IN  IF ic[i] = 0
             THEN (IF n = 0 THEN <<i>> \o Owners(Tail(oc), ic, i + 1, 0)
                            ELSE <<-1>>)
             ELSE IF n = 0 \/ used + n > ic[i] THEN <<-1>>
             ELSE IF used + n = ic[i]
             THEN <<i>> \o Owners(Tail(oc), ic, i + 1, 0)
             ELSE <<i>> \o Owners(Tail(oc), ic, i, used + n)

Terminated(t) == t = <<>> \/ t[Len(t)] = <<LF>>

OwnersOf(r) ==
    Owners(UnitCounts(Texts(ChunksOf(r)), 0), TokenCounts(lines(req[r].body)),
           1, 0)

(* C19: in wrapped mode every input line of an accepted body is ended by   *)
(* one newline chunk right after its last unit, also when it has no unit:  *)
(* the output lines are, input line by input line, the lines holding its   *)
(* tokens, or exactly one blank line for an input line that is empty or    *)
(* all whitespace, and the last chunk written is a newline.                *)
C19_EveryInputLineTerminated ==
    \A r \in DOMAIN req :
        (WrappedDone(r) /\ Accepted(r)) =>
            LET ic == TokenCounts(lines(req[r].body))
                ow == OwnersOf(r)
            IN  /\ Terminated(Texts(ChunksOf(r)))
                /\ -1 \notin Range(ow)
                /\ \A i \in 1..Len(ic) :
                     /\ \E k \in 1..Len(ow) : ow[k] = i
                     /\ ic[i] = 0 =>
                          Cardinality({k \in 1..Len(ow) : ow[k] = i}) = 1

(* An accepted body with a line of tokens and a line of whitespace only.   *)
C19_Witness ==
    \E r \in DOMAIN req :
        /\ WrappedDone(r) /\ Accepted(r)
        /\ LET ls == lines(req[r].body)
           IN  /\ \E i \in 1..Len(ls) :
                     ls[i] # <<>> /\ split_ascii_whitespace(ls[i]) = <<>>
               /\ \E i \in 1..Len(ls) : split_ascii_whitespace(ls[i]) # <<>>

Wrapping(r) == req[r].pc \in {"chunk", "break", "space", "unit", "end_line"}

Count(s, x) == Cardinality({i \in 1..Len(s) : s[i] = x})

(* C20: in wrapped mode extra_char is 1 exactly when chars_written > 0,    *)
(* chars_written is the length of the output line being written, every     *)
(* unit about to be placed has at most CHARS_PER_LINE characters and a     *)
(* forced break is taken only on an output line that already holds a unit; *)
(* so the blank output lines of an accepted body are as many as its input  *)
(* lines without tokens: wrapping adds none.                               *)
C20_NoBlankLineFromWrapping ==
    \A r \in DOMAIN req :
        /\ Wrapping(r) =>
             /\ req[r].extra_char = 1 <=> req[r].chars_written > 0
             /\ req[r].pc \in {"chunk", "break", "end_line"} =>
                  req[r].chars_written = CurrentLineLen(r)
             /\ req[r].pc \in {"break", "space", "unit"} =>
                  Len(Head(req[r].chunks)) <= CHARS_PER_LINE
             /\ req[r].pc = "break" => CurrentLineLen(r) > 0
        /\ (WrappedDone(r) /\ Accepted(r)) =>
             Count(UnitCounts(Texts(ChunksOf(r)), 0), 0)
                = Count(TokenCounts(lines(req[r].body)), 0)

(* An accepted body with an input line without tokens and a forced break:  *)
(* one blank output line, more output lines than input lines.              *)
C20_Witness ==
    \E r \in DOMAIN req :
        /\ WrappedDone(r) /\ Accepted(r)
        /\ Count(UnitCounts(Texts(ChunksOf(r)), 0), 0) = 1
        /\ Len(OutputLineLens(r)) > Len(lines(req[r].body))

(***************************************************************************)
(* The forecast derivations (lines 192-253).                               *)
(*                                                                         *)
(* Strings are modelled by their fields.  A date "2000-01-06" is the       *)
(* sequence of its '-'-separated fields; a timestamp "2024-01-15T07:30" is *)
(* the sequence of its 'T'-separated pieces, the time piece being the      *)
(* sequence of its ':'-separated fields.  A field is the natural number it *)
(* parses to, or NaN when it does not parse as a number.  A time of day    *)
(* (an f64 hour + minute / 60) is held in minutes.                         *)
(***************************************************************************)
NaN == -1

Parses(field) == field # NaN

(* Rust's integer division truncates toward zero. *)
TruncDiv(a, b) == IF a >= 0 THEN a \div b ELSE -((-a) \div b)

(***************************************************************************)
(* format_time (lines 192-195) and parse_hour (lines 197-204).             *)
(***************************************************************************)
format_time(iso) == IF Len(iso) >= 2 THEN iso[2] ELSE iso

parse_hour(iso) ==
    LET time == IF Len(iso) >= 2 THEN iso[2] ELSE <<12, 0>>
        hour == IF Len(time) >= 1 /\ Parses(time[1]) THEN time[1] ELSE 12
        min  == IF Len(time) >= 2 /\ Parses(time[2]) THEN time[2] ELSE 0
    IN  hour * 60 + min

(***************************************************************************)
(* moon_phase (lines 206-232).                                             *)
(*                                                                         *)
(* Line 220 works in f64.  The f64 nearest to 29.53 is 2953/100 + eps with *)
(* eps = 2^-48 * 0.32 (about 1.1e-15), and `%` on f64 is exact, so the     *)
(* value of `days_since % 29.53` is h/100 + e * eps for the integers       *)
(* h = 100 * days_since - 2953 * q and e = -q, q the truncated quotient.   *)
(* A value is held as that pair <<h, e>>; pairs are ordered by h, then e.  *)
(* (The rounding of the one addition is below eps * 4 and decides nothing: *)
(* h is a multiple of 100 only where e is 0 or at least 100 in size.)      *)
(***************************************************************************)
SYNODIC_HUNDREDTHS == 2953

REFERENCE_NEW_MOON == 2451550

julian_day(year, month, day) ==
    LET a == TruncDiv(14 - month, 12)
        y == year + 4800 - a
        m == month + 12 * a - 3
    IN  day + TruncDiv(153 * m + 2, 5) + 365 * y + TruncDiv(y, 4)
            - TruncDiv(y, 100) + TruncDiv(y, 400) - 32045

(* days_since % 29.53: the quotient of days_since by the f64 29.53 is one  *)
(* short of the exact one where 29.53 divides days_since exactly.          *)
f64_rem_synodic(days_since) ==
    LET n  == 100 * days_since
        q0 == TruncDiv(n, SYNODIC_HUNDREDTHS)
        q  == IF q0 * SYNODIC_HUNDREDTHS = n /\ q0 > 0 THEN q0 - 1
              ELSE IF q0 * SYNODIC_HUNDREDTHS = n /\ q0 < 0 THEN q0 + 1
              ELSE q0
    IN  <<n - SYNODIC_HUNDREDTHS * q, -q>>

(* ((days_since % 29.53) + 29.53) % 29.53 *)
f64_phase(days_since) ==
    LET r == f64_rem_synodic(days_since)
        s == <<r[1] + SYNODIC_HUNDREDTHS, r[2] + 1>>
    IN  IF s[1] > SYNODIC_HUNDREDTHS \/ (s[1] = SYNODIC_HUNDREDTHS /\ s[2] >= 1)
        THEN r ELSE s

(* `phase as u8`: the value truncated. *)
f64_as_u8(v) ==
    IF v[1] % 100 = 0 /\ v[2] < 0 THEN v[1] \div 100 - 1 ELSE v[1] \div 100

phase_name(n) ==
    IF n <= 1 THEN <<"@", "New Moon">>
    ELSE IF n <= 6 THEN <<")", "Waxing Crescent">>
    ELSE IF n <= 8 THEN <<"D", "First Quarter">>
    ELSE IF n <= 13 THEN <<"D", "Waxing Gibbous">>
    ELSE IF n <= 16 THEN <<"O", "Full Moon">>
    ELSE IF n <= 21 THEN <<"C", "Waning Gibbous">>
    ELSE IF n <= 23 THEN <<"C", "Last Quarter">>
    ELSE <<"(", "Waning Crescent">>

moon_phase(date) ==
    LET parts == SelectSeq(date, Parses)
    IN  IF Len(parts) < 3 THEN <<"?", "Unknown">>
        ELSE LET jd == julian_day(parts[1], parts[2], parts[3])
                 days_since == jd - REFERENCE_NEW_MOON
             IN  phase_name(f64_as_u8(f64_phase(days_since)))

(***************************************************************************)
(* render_daylight_bar (lines 234-261): the three lines of the strip.      *)
(* With times in minutes, `x / 24.0 * width as usize` is x * 48 / 1440     *)
(* truncated and `hour > sunrise` for column col is col * 1440 > 48 * x.   *)
(***************************************************************************)
MINUTES_PER_DAY == 1440

(* A variant that takes the nearest column instead of truncating. *)
hour_to_col_nearest(minutes) ==
    (minutes * CHARS_PER_LINE + MINUTES_PER_DAY \div 2) \div MINUTES_PER_DAY

hour_to_col(minutes) == (minutes * CHARS_PER_LINE) \div MINUTES_PER_DAY

daylight_glyph(col, sunrise, sunset) ==
    LET hour_x_width == col * MINUTES_PER_DAY
    IN  IF col = hour_to_col(sunrise) THEN ">"
        ELSE IF col = hour_to_col(sunset) THEN "<"
        ELSE IF /\ hour_x_width > sunrise * CHARS_PER_LINE
                /\ hour_x_width < sunset * CHARS_PER_LINE THEN "="
        ELSE "-"

render_daylight_bar(sunrise, sunset) ==
    <<"0           6           12          18        24",
      [i \in 1..CHARS_PER_LINE |-> daylight_glyph(i - 1, sunrise, sunset)],
      "^night      ^morn       ^noon       ^eve      ^">>

(***************************************************************************)
(* weather_code_to_description (lines 172-190).                            *)
(***************************************************************************)
weather_code_to_description(code) ==
    IF code = 0 THEN "Clear sky"
    ELSE IF code = 1 THEN "Mainly clear"
    ELSE IF code = 2 THEN "Partly cloudy"
    ELSE IF code = 3 THEN "Overcast"
    ELSE IF code \in {45, 48} THEN "Foggy"
    ELSE IF code \in {51, 53, 55} THEN "Drizzle"
    ELSE IF code \in {61, 63, 65} THEN "Rain"
    ELSE IF code \in {66, 67} THEN "Freezing rain"
    ELSE IF code \in {71, 73, 75} THEN "Snow"
    ELSE IF code = 77 THEN "Snow grains"
    ELSE IF code \in {80, 81, 82} THEN "Rain showers"
    ELSE IF code \in {85, 86} THEN "Snow showers"
    ELSE IF code = 95 THEN "Thunderstorm"
    ELSE IF code \in {96, 99} THEN "Thunderstorm with hail"
    ELSE "Unknown"

(***************************************************************************)
(* The weather handler (lines 283-400).                                    *)
(*                                                                         *)
(* A request names a location in its query string; the handler has no      *)
(* extractor for it (lines 283-285) and always asks for BERLIN_LAT,        *)
(* BERLIN_LON.  What the forecast service does is an input: the GET fails, *)
(* or it answers with a body that is or is not a WeatherResponse.  Of the  *)
(* response the model keeps the fields the derivations read; the numbers   *)
(* that are only formatted into a line are left in the line's label.       *)
(***************************************************************************)
BERLIN == "Berlin"

NoSuchPlace == "Nowhere"

Locations == {BERLIN, NoSuchPlace}

BAD_GATEWAY == "502 Bad Gateway"

Stamp(h, m) == <<<<2024, 1, 15>>, <<h, m>>>>

DailyWeathers ==
    {[time |-> <<2000, 1, 6>>, weather_code |-> 0,
      sunrise |-> Stamp(6, 0), sunset |-> Stamp(18, 0)],
     [time |-> <<2008, 2, 20>>, weather_code |-> 61,
      sunrise |-> Stamp(8, 15), sunset |-> Stamp(16, 5)],
     [time |-> <<2024, NaN, 15>>, weather_code |-> 4,
      sunrise |-> <<<<2024, 1, 15>>>>, sunset |-> Stamp(NaN, 30)]}

Upstream ==
    {[fetched |-> f, json |-> j, daily |-> d] :
        f \in BOOLEAN, j \in BOOLEAN, d \in DailyWeathers}

IdleWeather == [pc |-> "weather_idle", location |-> BERLIN, fetches |-> 0,
                upstream |-> CHOOSE u \in Upstream : TRUE, doc |-> <<>>,
                result |-> Pending]

Left(text) == [justify |-> "LEFT", text |-> text]

Center(text) == [justify |-> "CENTER", text |-> text]

border == <<"~ x 48">>

divider == <<"- x 48">>

(* render_hourly_temps (lines 263-281): two lines. *)
render_hourly_temps == <<"  Hour:  ...", "  Temp:  ...">>

(* The lines of the document in the order of lines 347-388. *)
Document(daily) ==
    LET desc == weather_code_to_description(daily.weather_code)
        sunrise_hour == parse_hour(daily.sunrise)
        sunset_hour == parse_hour(daily.sunset)
        moon == moon_phase(daily.time)
        daylight_bar == render_daylight_bar(sunrise_hour, sunset_hour)
        hourly_temps == render_hourly_temps
    IN  <<Left(border),
          Center(<<"* * * BERLIN * * *">>),
          Center(<<"{}", daily.time>>),
          Left(border),
          Center(<<"">>),
          Center(<<"~ {} ~", desc>>),
          Center(<<"">>),
          Left(divider),
          Left(<<"High: {:.0}F          Low: {:.0}F">>),
          Left(<<"Feels: {:.0}F / {:.0}F">>),
          Left(divider),
          Left(<<"Precip: {}%       UV Index: {:.0}">>),
          Left(<<"Wind: {:.0} mph (gusts {:.0})">>),
          Left(divider),
          Left(<<"">>),
          Center(<<"HOURLY TEMPERATURES">>)>>
        \o [i \in 1..Len(hourly_temps) |-> Left(<<hourly_temps[i]>>)]
        \o <<Left(divider),
             Left(<<"">>),
             Center(<<"DAYLIGHT">>),
             Left(<<">=day  -=night">>)>>
        \o [i \in 1..Len(daylight_bar) |-> Left(<<daylight_bar[i]>>)]
        \o <<Left(<<"Sunrise: {}    Sunset: {}",
                    format_time(daily.sunrise), format_time(daily.sunset)>>),
             Left(divider),
             Left(<<"">>),
             Center(<<"MOON: {} {}", moon[1], moon[2]>>),
             Left(<<"">>),
             Left(border)>>

(* Lines 283-298: the request arrives and the forecast is fetched. *)
weather_fetch(r) ==
    /\ req[r].pc = "weather_idle"
    /\ \E location \in Locations, u \in Upstream :
          LET rec == [req[r] EXCEPT !.location = location, !.upstream = u,
                                    !.fetches = @ + 1]
          IN  IF ~u.fetched
              THEN Set(r, [rec EXCEPT !.pc = "done", !.result = BAD_GATEWAY])
              ELSE Set(r, [rec EXCEPT !.pc = "weather_parse"])
    /\ UNCHANGED <<printer, out>>

(* A variant that prints the header before the response is looked at. *)
weather_parse_header_first(r) ==
    /\ req[r].pc = "weather_parse"
    /\ out' = Append(out, SinkOp(r, IF printer = "Some" THEN "writeln"
                                    ELSE "println", border, TRUE))
    /\ IF ~req[r].upstream.json
       THEN Set(r, [req[r] EXCEPT !.pc = "done", !.result = BAD_GATEWAY])
       ELSE Set(r, [req[r] EXCEPT !.pc = "weather_write",
                                  !.doc = Tail(Document(req[r].upstream.daily))])
    /\ UNCHANGED printer

(* Lines 299-317: the body is parsed and the document composed. *)
weather_parse(r) ==
    /\ req[r].pc = "weather_parse"
    /\ IF ~req[r].upstream.json
       THEN Set(r, [req[r] EXCEPT !.pc = "done", !.result = BAD_GATEWAY])
       ELSE Set(r, [req[r] EXCEPT !.pc = "weather_write",
                                  !.doc = Document(req[r].upstream.daily)])
    /\ UNCHANGED <<printer, out>>

FailedOps == Len(SelectSeq(out, LAMBDA e : ~e.ok))

device_op_fails ==
    IF FailedOps < MaxWriteFailures THEN {FALSE, TRUE} ELSE {FALSE}

(* Lines 324-388: one writeln_left! or writeln_center! call.  On the       *)
(* device both results are dropped (`let _ =`).                            *)
weather_writeln(r) ==
    /\ req[r].pc = "weather_write"
    /\ req[r].doc # <<>>
    /\ LET line == Head(req[r].doc)
       IN  IF printer = "Some"
           THEN \E jf \in device_op_fails, wf \in device_op_fails :
                   out' = out \o <<SinkOp(r, "justify", <<line.justify>>, ~jf),
                                   SinkOp(r, "writeln", line.text, ~wf)>>
           ELSE out' = Append(out, SinkOp(r, "println", line.text, TRUE))
    /\ Set(r, [req[r] EXCEPT !.doc = Tail(@)])
    /\ UNCHANGED printer

(* Lines 390-399. *)
weather_finish(r) ==
    /\ req[r].pc = "weather_write"
    /\ req[r].doc = <<>>
    /\ IF printer = "Some"
       THEN \E cut_ok \in BOOLEAN :
               /\ out' = Append(out, SinkOp(r, "print_cut", <<>>, cut_ok))
               /\ Set(r, [req[r] EXCEPT !.pc = "done",
                             !.result = IF cut_ok THEN Ok
                                        ELSE INTERNAL_SERVER_ERROR])
       ELSE /\ out' = out
            /\ Set(r, [req[r] EXCEPT !.pc = "done", !.result = Ok])
    /\ UNCHANGED printer

InitWeather ==
    /\ printer \in create_printer
    /\ req = [r \in {1} |-> IdleWeather]
    /\ out = <<>>

NextWeather ==
    \E r \in DOMAIN req :
        \/ weather_fetch(r)
        \/ weather_parse(r)
        \/ weather_writeln(r)
        \/ weather_finish(r)

SpecWeather == InitWeather /\ [][NextWeather]_vars

(* C12: when the weather fetch or the parsing of its response fails, the   *)
(* weather endpoint returns the upstream-unavailable result at once, after *)
(* a single fetch, and has performed no sink operation at all.             *)
UpstreamFailed(r) ==
    /\ req[r].fetches > 0
    /\ ~req[r].upstream.fetched \/ ~req[r].upstream.json

C12_UpstreamFailureNoOutput ==
    \A r \in DOMAIN req :
        /\ UpstreamFailed(r) => OpsOf(r) = <<>> /\ req[r].fetches = 1
        /\ (UpstreamFailed(r) /\ req[r].pc # "weather_parse") =>
              Done(r) /\ req[r].result = BAD_GATEWAY
        /\ (Done(r) /\ req[r].result = BAD_GATEWAY) => UpstreamFailed(r)

C12_Witness ==
    \E r \in DOMAIN req :
        /\ Done(r)
        /\ req[r].upstream.fetched
        /\ ~req[r].upstream.json
        /\ req[r].result = BAD_GATEWAY
        /\ printer = "Some"

(* C13: when the location lookup gives no geocoding match, the weather     *)
(* endpoint returns NotFound, a result distinct from upstream-unavailable, *)
(* and performs no sink operation.  (Stated for requests whose forecast    *)
(* service is available, so that the two results cannot compete.)          *)
NOT_FOUND == "404 Not Found"

C13_NoMatchIsNotFound ==
    \A r \in DOMAIN req :
        (/\ Done(r)
         /\ req[r].location = NoSuchPlace
         /\ req[r].upstream.fetched
         /\ req[r].upstream.json) =>
            /\ req[r].result = NOT_FOUND
            /\ req[r].result # BAD_GATEWAY
            /\ OpsOf(r) = <<>>

(***************************************************************************)
(* moon_phase on its own: the dates are the days 1..28 of every month of a *)
(* few years on both sides of the reference new moon, and some dates with  *)
(* a missing or non-numeric field.                                         *)
(***************************************************************************)
MoonYears == {1999, 2000, 2008}

Dates ==
    {<<y, m, d>> : y \in MoonYears, m \in 1..12, d \in 1..28}
        \cup {<<2000, 1>>, <<2000, NaN, 6>>, <<NaN, 1, 6>>, <<>>}

InitMoon ==
    /\ printer \in create_printer
    /\ req \in {[r \in {1} |-> [pc |-> "moon_phase", date |-> date,
                                 result |-> Pending]] : date \in Dates}
    /\ out = <<>>

moon_phase_call(r) ==
    /\ req[r].pc = "moon_phase"
    /\ Set(r, [req[r] EXCEPT !.pc = "done",
                             !.result = moon_phase(req[r].date)])
    /\ UNCHANGED <<printer, out>>

NextMoon == \E r \in DOMAIN req : moon_phase_call(r)

SpecMoon == InitMoon /\ [][NextMoon]_vars

(* C14: moon_phase maps 2000-01-06 (Julian Day 2451550) to "New Moon" and  *)
(* 2000-01-20, 2000-01-21 and 2000-01-22 to "Full Moon"; in general the    *)
(* phase is the bucket of the truncated value of                           *)
(* (JulianDay(date) - 2451550) reduced modulo 29.53 into [0, 29.53), also  *)
(* for dates before the reference.                                         *)
ReducedModuloSynodic(days) == ((100 * days) % 2953) \div 100

C14_PhaseIsBucketOfReducedDay ==
    \A r \in DOMAIN req :
        (Done(r) /\ Len(req[r].date) = 3 /\ \A i \in 1..3 : Parses(req[r].date[i])) =>
            LET date == req[r].date
                days == julian_day(date[1], date[2], date[3]) - 2451550
            IN  /\ req[r].result = phase_name(ReducedModuloSynodic(days))
                /\ date = <<2000, 1, 6>> => req[r].result[2] = "New Moon"
                /\ date \in {<<2000, 1, 20>>, <<2000, 1, 21>>, <<2000, 1, 22>>} =>
                      req[r].result[2] = "Full Moon"

(***************************************************************************)
(* render_daylight_bar on its own: sunrise and sunset are times of day in  *)
(* [0, 24) on a quarter-hour grid, in either order.                        *)
(***************************************************************************)
QuarterHours == {m \in 0..(MINUTES_PER_DAY - 1) : m % 15 = 0}

InitDaylight ==
    /\ printer \in create_printer
    /\ req \in {[r \in {1} |-> [pc |-> "render_daylight_bar", sunrise |-> a,
                                 sunset |-> b, result |-> Pending]] :
                    a \in QuarterHours, b \in QuarterHours}
    /\ out = <<>>

render_daylight_bar_call(r) ==
    /\ req[r].pc = "render_daylight_bar"
    /\ Set(r, [req[r] EXCEPT !.pc = "done",
                  !.result = render_daylight_bar(req[r].sunrise, req[r].sunset)])
    /\ UNCHANGED <<printer, out>>

NextDaylight == \E r \in DOMAIN req : render_daylight_bar_call(r)

SpecDaylight == InitDaylight /\ [][NextDaylight]_vars

(* floor(x / 24 * 48) for a time of x minutes. *)
FloorColumn(minutes) == (minutes * 48) \div (24 * 60)

DaylightCase(r) == Done(r) /\ req[r].sunrise < req[r].sunset

Strip(r) == req[r].result[2]

StripAround(r, sr, ss) ==
    /\ Len(Strip(r)) = 48
    /\ Strip(r)[sr + 1] = ">"
    /\ \A col \in 0..47 :
          /\ (sr < col /\ col < ss) => Strip(r)[col + 1] = "="
          /\ (col < sr \/ col > ss) => Strip(r)[col + 1] = "-"
    /\ (req[r].sunrise = 6 * 60 /\ req[r].sunset = 18 * 60) => sr = 12 /\ ss = 36

(* C15 as stated: render_daylight_bar produces a strip of exactly 48       *)
(* columns in which, for sunrise < sunset within [0, 24), the sunrise      *)
(* marker is at column floor(sunrise/24*48), the sunset marker at column   *)
(* floor(sunset/24*48), every column strictly between the markers is the   *)
(* daytime glyph and every column outside them the night glyph; for 6.0    *)
(* and 18.0 the markers are at columns 12 and 36.                          *)
C15_BothMarkersAtFloorColumns ==
    \A r \in DOMAIN req :
        DaylightCase(r) =>
            LET sr == FloorColumn(req[r].sunrise)
                ss == FloorColumn(req[r].sunset)
            IN  /\ StripAround(r, sr, ss)
                /\ Strip(r)[ss + 1] = "<"

(* C15, amended: as stated when sunrise and sunset fall in different       *)
(* columns; when they fall in the same column that column holds the        *)
(* sunrise marker, the strip has no sunset marker and every other column   *)
(* is the night glyph.                                                     *)
C15_SunsetMarkerUnlessSameColumn ==
    \A r \in DOMAIN req :
        DaylightCase(r) =>
            LET sr == FloorColumn(req[r].sunrise)
                ss == FloorColumn(req[r].sunset)
            IN  /\ StripAround(r, sr, ss)
                /\ ss # sr => Strip(r)[ss + 1] = "<"
                /\ ss = sr => \A col \in 0..47 : Strip(r)[col + 1] # "<"

C15_Witness ==
    \E r \in DOMAIN req :
        /\ DaylightCase(r)
        /\ req[r].sunrise = 6 * 60 + 15
        /\ req[r].sunset = 18 * 60 + 45
        /\ Strip(r)[13] = ">"
        /\ Strip(r)[14] = "="
        /\ Strip(r)[38] = "<"

C15_SameColumn ==
    \E r \in DOMAIN req :
        /\ DaylightCase(r)
        /\ FloorColumn(req[r].sunrise) = FloorColumn(req[r].sunset)
====
